---- MODULE Spec2Model ----
(***************************************************************************)
(* Model of the Elastic IP manager (src/src/elastic_ip_manager).           *)
(*                                                                         *)
(* The inventory (instances, addresses, tags) lives in the EC2 API; every  *)
(* Manager pass re-reads it with refresh().  One action is one complete    *)
(* invocation of handler(), or one complete call of a Manager method, as   *)
(* the tests call them.  The answers of the EC2 API that the code cannot   *)
(* control (a call raising ClientError, the iteration order of a Python    *)
(* set, the order of a listing) are inputs drawn with \E.                  *)
(*                                                                         *)
(* SpecConcurrent runs two add passes call by call; SpecAsg is the handler *)
(* of the auto scaling group variant (src/src/asg_elastic_ip_manager).     *)
(***************************************************************************)
EXTENDS Integers, Sequences, FiniteSets, TLC

\* ---------------------------------------------------------------- bounds
MaxInstances == 3
MaxAddresses == 3
MaxPools == 2

Instances == 1..MaxInstances
Addresses == 1..MaxAddresses
Pools == 1..MaxPools

\* tags.get("elastic-ip-manager-pool", None) and EIP.get("InstanceId")
None == 0
\* an instance id no instance has ("i-000000000000a4a41" of the tests)
UnknownId == MaxInstances + 1
\* an instance that exists and carries other tags but no pool tag
UntaggedId == MaxInstances + 2
\* an instance that exists and carries no tag at all
TaglessId == MaxInstances + 3

VARIABLES
    state,      \* state[i]: whether instance i is running
    addr,       \* addr[a]: the EIP record of allocation a
    last,       \* what the last invocation did (calls issued, raised)
    run         \* two add passes running at the same time, call by call

vars == <<state, addr, last, run>>

\* ------------------------------------------------------- src: eip.py
\* An EIP record as describe_addresses returns it.  AssociationId is kept
\* as a flag (the id itself is one-to-one with the allocation while it is
\* associated); InstanceId is None for an address that is associated to a
\* network interface that is attached to no instance.
EIP == [AssociationId : BOOLEAN, InstanceId : Instances \cup {None}]

FreeEIP == [AssociationId |-> FALSE, InstanceId |-> None]
BoundEIP(i) == [AssociationId |-> TRUE, InstanceId |-> i]

\* the records the EC2 API can return: an InstanceId only with an association
ValidEIP == {e \in EIP : e.InstanceId # None => e.AssociationId}

is_associated(e) == e.AssociationId

\* the pool tag of an address; addresses are tagged once, by the operator
AddressPool(a) == ((a - 1) % MaxPools) + 1

get_pool_addresses(p) == {a \in Addresses : AddressPool(a) = p}

\* ----------------------------------------------- src: ec2_instance.py
\* The instance-state-name, as far as the code tells states apart: the
\* listing filter keeps "running"; "stopped" stands for every other state of
\* an instance that describe_instances still returns (stopping, stopped,
\* shutting-down, terminated).
InstanceStates == {"running", "stopped"}

\* EC2Instance.pool_name: the value of the instance's pool tag; instances
\* are tagged once, by the operator
InstancePool(i) == ((i - 1) % MaxPools) + 1

\* a slip: the filter on the instance state is lost
get_pool_instances_anyState(p) ==
    {i \in Instances : InstancePool(i) = p}

get_pool_instances(p) ==
    {i \in Instances : InstancePool(i) = p /\ state[i] = "running"}

\* describe_pool_instance: the instance record, for an id that exists
Describable(id) == id \in Instances \cup {UntaggedId, TaglessId}

\* EC2Instance.pool_name of a described instance: None without the pool tag
pool_name(id) == IF id \in Instances THEN InstancePool(id) ELSE None

\* ------------------------------------------------ src: manager.py, Manager
Min(x, y) == IF x <= y THEN x ELSE y

\* the enumerations of a finite set S (the possible orders of a listing,
\* of list(set(...)))
Perms(S) ==
    {s \in [1..Cardinality(S) -> S] : \A x \in S : \E k \in DOMAIN s : s[k] = x}

\* What one pass (or one invocation) did: the inventory it leaves, the
\* passes it started (method, pool), the associate_address and
\* disassociate_address calls it issued, in order, whether an exception
\* escaped it, and which kinds of API call failed: "list" (a listing of
\* refresh), "associate", "disassociate", "describe", "names"
\* (get_all_pool_names), "metric" (put_cloudwatch_metric).
Outcome(ad, passes, assoc, dis, raised, errors) ==
    [addr |-> ad, passes |-> passes, assoc |-> assoc, dis |-> dis,
     raised |-> raised, errors |-> errors]

\* nothing called, nothing raised
Quiet(ad) == Outcome(ad, <<>>, <<>>, <<>>, FALSE, {})

\* b after a: the passes and calls of both, in order
Then(a, b) ==
    Outcome(b.addr, a.passes \o b.passes, a.assoc \o b.assoc, a.dis \o b.dis,
            b.raised, a.errors \cup b.errors)

\* a slip: the filter on the instance id is lost
instance_addresses_unfiltered(ad, addresses, instance_id) ==
    addresses

\* a slip: the filter takes every associated address
instance_addresses_associated(ad, addresses, instance_id) ==
    SelectSeq(addresses, LAMBDA a : is_associated(ad[a]))

\* Manager.instance_addresses over the listing `addresses`
instance_addresses(ad, addresses, instance_id) ==
    SelectSeq(addresses, LAMBDA a : ad[a].InstanceId = instance_id)

\* a slip: the filter on the association is dropped
available_addresses_all(ad, addresses) ==
    addresses

\* Manager.available_addresses over the listing `addresses`
available_addresses(ad, addresses) ==
    SelectSeq(addresses, LAMBDA a : ~is_associated(ad[a]))

\* a slip: the instance is looked up by the allocation id of the address
attached_instances_byAllocation(ad, p) ==
    {i \in get_pool_instances(p) :
        \E a \in get_pool_addresses(p) : is_associated(ad[a]) /\ a = i}

\* Manager.attached_instances
attached_instances(ad, p) ==
    {i \in get_pool_instances(p) :
        \E a \in get_pool_addresses(p) : ad[a].InstanceId = i}

\* a slip: the attached instances are not subtracted
unattached_instances_all(ad, p) ==
    get_pool_instances(p)

\* Manager.unattached_instances
unattached_instances(ad, p) ==
    get_pool_instances(p) \ attached_instances(ad, p)

\* a slip: the call names a network interface that no instance holds
associate_address_detached(ad, instance, allocation_id, failing) ==
    IF allocation_id \in failing THEN ad
    ELSE [ad EXCEPT ![allocation_id] =
              [AssociationId |-> TRUE, InstanceId |-> None]]

\* ec2.associate_address(NetworkInterfaceId, AllocationId) on the primary
\* network interface of `instance`: raises ClientError for the allocations
\* in `failing`, else binds the allocation to the instance
associate_address(ad, instance, allocation_id, failing) ==
    IF allocation_id \in failing THEN ad
    ELSE [ad EXCEPT ![allocation_id] = BoundEIP(instance)]

\* ec2.disassociate_address(AssociationId): raises ClientError for the
\* allocations in `failing`, else frees the allocation
disassociate_address(ad, allocation_id, failing) ==
    IF allocation_id \in failing THEN ad
    ELSE [ad EXCEPT ![allocation_id] = FreeEIP]

\* the loop of add_addresses over the pairs, each call in its own try
RECURSIVE associate_loop(_, _, _)
associate_loop(ad, pairs, failing) ==
    IF pairs = <<>> THEN ad
    ELSE associate_loop(
            associate_address(ad, Head(pairs)[1], Head(pairs)[2], failing),
            Tail(pairs), failing)

\* the loop of remove_addresses, each call in its own try
RECURSIVE disassociate_loop(_, _, _)
disassociate_loop(ad, allocation_ids, failing) ==
    IF allocation_ids = <<>> THEN ad
    ELSE disassociate_loop(
            disassociate_address(ad, Head(allocation_ids), failing),
            Tail(allocation_ids), failing)

\* a slip: only the first unattached instance is served in a pass
pairing_first(instances, allocation_ids) ==
    [k \in 1..Min(1, Min(Len(instances), Len(allocation_ids))) |->
        <<instances[k], allocation_ids[k]>>]

\* the (instance, allocation) pairs add_addresses builds: by position, as
\* many as the shorter list allows
pairing(instances, allocation_ids) ==
    [k \in 1..Min(Len(instances), Len(allocation_ids)) |->
        <<instances[k], allocation_ids[k]>>]

\* the pairs up to and including the first whose allocation is in `failing`
RECURSIVE upto_failure(_, _)
upto_failure(pairs, failing) ==
    IF pairs = <<>> THEN <<>>
    ELSE IF Head(pairs)[2] \in failing THEN <<Head(pairs)>>
    ELSE <<Head(pairs)>> \o upto_failure(Tail(pairs), failing)

\* a slip: the try is around the loop, so the first ClientError ends it and
\* escapes
add_addresses_abort(ad, p, instances, addresses, failing) ==
    LET allocation_ids == available_addresses(ad, addresses)
        pairs == pairing(instances, allocation_ids)
        made == upto_failure(pairs, failing)
        failed == \E k \in DOMAIN pairs : pairs[k][2] \in failing
    IN  IF instances = <<>> \/ allocation_ids = <<>>
        THEN Outcome(ad, <<<<"add", p>>>>, <<>>, <<>>, FALSE, {})
        ELSE Outcome(associate_loop(ad, made, failing), <<<<"add", p>>>>,
                     made, <<>>, failed,
                     IF failed THEN {"associate"} ELSE {})

\* a slip: on a shortage the pass gives up instead of pairing what it can
add_addresses_cancel(ad, p, instances, addresses, failing) ==
    LET allocation_ids == available_addresses(ad, addresses)
        pairs == pairing(instances, allocation_ids)
    IN  IF instances = <<>> \/ Len(instances) > Len(allocation_ids)
        THEN Outcome(ad, <<<<"add", p>>>>, <<>>, <<>>, FALSE, {})
        ELSE Outcome(associate_loop(ad, pairs, failing), <<<<"add", p>>>>,
                     pairs, <<>>, FALSE,
                     IF \E k \in DOMAIN pairs : pairs[k][2] \in failing
                     THEN {"associate"} ELSE {})

\* Manager.add_addresses of pool p after a successful refresh().
\* `instances` is list(self.unattached_instances) in the order the set
\* iterates, `addresses` is self.addresses in the order of the listing,
\* `failing` the allocations whose associate call raises ClientError.
add_addresses(ad, p, instances, addresses, failing) ==
    LET allocation_ids == available_addresses(ad, addresses)
        pairs == pairing(instances, allocation_ids)
    IN  IF instances = <<>>
        THEN Outcome(ad, <<<<"add", p>>>>, <<>>, <<>>, FALSE, {})
        ELSE IF allocation_ids = <<>>
        THEN Outcome(ad, <<<<"add", p>>>>, <<>>, <<>>, FALSE, {})
        ELSE Outcome(associate_loop(ad, pairs, failing), <<<<"add", p>>>>,
                     pairs, <<>>, FALSE,
                     IF \E k \in DOMAIN pairs : pairs[k][2] \in failing
                     THEN {"associate"} ELSE {})

\* Manager.remove_addresses of pool p after a successful refresh()
remove_addresses(ad, p, addresses, instance_id, failing) ==
    LET bound == instance_addresses(ad, addresses, instance_id)
    IN  IF bound = <<>>
        THEN Outcome(ad, <<<<"remove", p>>>>, <<>>, <<>>, FALSE, {})
        ELSE Outcome(disassociate_loop(ad, bound, failing), <<<<"remove", p>>>>,
                     <<>>, bound, FALSE,
                     IF \E k \in DOMAIN bound : bound[k] \in failing
                     THEN {"disassociate"} ELSE {})

\* a slip: the failed listing is logged and the pass returns normally
RefreshFailed_logged(ad, method, p) ==
    Outcome(ad, <<<<method, p>>>>, <<>>, <<>>, FALSE, {"list"})

\* Manager.refresh raising: a listing failed and the exception escapes
RefreshFailed(ad, method, p) ==
    Outcome(ad, <<<<method, p>>>>, <<>>, <<>>, TRUE, {"list"})

\* every way one add_addresses pass on pool p can go from inventory ad
AddOutcomes(ad, p) ==
    {RefreshFailed(ad, "add", p)} \cup
    UNION {
        {add_addresses(ad, p, instances, addresses, failing) :
            failing \in SUBSET {a \in get_pool_addresses(p) : ~is_associated(ad[a])}} :
        instances \in Perms(unattached_instances(ad, p)),
        addresses \in Perms(get_pool_addresses(p))}

\* every way one remove_addresses pass can go
RemoveOutcomes(ad, p, instance_id) ==
    {RefreshFailed(ad, "remove", p)} \cup
    UNION {
        {remove_addresses(ad, p, addresses, instance_id, failing) :
            failing \in SUBSET {a \in get_pool_addresses(p) :
                                  ad[a].InstanceId = instance_id}} :
        addresses \in Perms(get_pool_addresses(p))}

\* ------------------------------------------------- src: manager.py, events
Sources == {"aws.ec2", "aws.events", "aws.unknown"}
EventStates == {"pending", "running", "stopping", "shutting-down", "terminated"}

\* A state-change notification carries a detail mapping with the instance
\* and its new state; a scheduled event carries an empty detail.  An event
\* may lack the detail mapping (detail FALSE), or its detail may lack the
\* state ("none") or the instance-id (None).
Events ==
    [source : {"aws.ec2"},
     detail_type : {"EC2 Instance State-change Notification"},
     detail : {TRUE},
     state : EventStates \cup {"none"},
     instance_id : Instances \cup {UnknownId, UntaggedId, TaglessId, None}]
    \cup
    [source : {"aws.ec2", "aws.unknown"},
     detail_type : {"EC2 Instance State-change Notification"},
     detail : {FALSE}, state : {"none"}, instance_id : {None}]
    \cup
    [source : {"aws.unknown"},
     detail_type : {"EC2 Instance State-change Notification"},
     detail : {TRUE}, state : {"running", "terminated"}, instance_id : {1}]
    \cup
    [source : Sources, detail_type : {"Scheduled Event"},
     detail : {TRUE}, state : {"none"}, instance_id : {None}]

is_state_change_event(event) ==
    /\ event.source = "aws.ec2"
    /\ event.detail_type = "EC2 Instance State-change Notification"

\* event.get("detail") is None, so event.get("detail").get("state") raises
\* AttributeError in is_add_address_event
detail_is_none(event) == is_state_change_event(event) /\ ~event.detail

is_add_address_event(event) ==
    is_state_change_event(event) /\ event.state = "running"

is_address_removed_event(event) ==
    /\ is_state_change_event(event)
    /\ event.state \in {"stopping", "shutting-down", "terminated"}

\* a slip: the source of a scheduled event is not looked at
is_timer_anySource(event) == event.detail_type = "Scheduled Event"

is_timer(event) ==
    event.source = "aws.events" /\ event.detail_type = "Scheduled Event"

\* get_all_pool_names: the values of the pool tag over all tagged
\* resources, each once, in the order the tagging API lists them (sorted)
get_all_pool_names ==
    LET values == {AddressPool(a) : a \in Addresses}
                  \cup {InstancePool(i) : i \in Instances}
    IN  CHOOSE names \in Perms(values) :
            \A j, k \in DOMAIN names : j < k => names[j] < names[k]

\* put_cloudwatch_metric raising (its listing or put_metric_data failed)
MetricFailed(ad) == Outcome(ad, <<>>, <<>>, <<>>, TRUE, {"metric"})

\* a slip: the loop over the pool names stops after the first pool
sweep_firstOnly(names, r) ==
    IF names = <<>> THEN {r}
    ELSE UNION {
            IF a.raised THEN {Then(r, a)}
            ELSE {Then(Then(r, a), MetricFailed(a.addr)), Then(r, a)} :
            a \in AddOutcomes(r.addr, Head(names))}

\* the timer branch of handler over the remaining pool names, from what
\* the invocation did so far
RECURSIVE sweep(_, _)
sweep(names, r) ==
    IF names = <<>> THEN {r}
    ELSE UNION {
            IF a.raised THEN {Then(r, a)}
            ELSE {Then(Then(r, a), MetricFailed(a.addr))}
                 \cup sweep(Tail(names), Then(r, a)) :
            a \in AddOutcomes(r.addr, Head(names))}

\* handler on a timer event: get_all_pool_names may itself raise
TimerOutcomes(ad) ==
    {Outcome(ad, <<>>, <<>>, <<>>, TRUE, {"names"})} \cup
    sweep(get_all_pool_names, Quiet(ad))

\* a slip: on a remove event the backfill runs before the release
InstanceEventOutcomes_addFirst(ad, event) ==
    LET id == event.instance_id
        p == pool_name(id)
        notFound == Outcome(ad, <<>>, <<>>, <<>>, FALSE, {"describe"})
        empty == Outcome(ad, <<>>, <<>>, <<>>, TRUE, {})
        invalid == Outcome(ad, <<>>, <<>>, <<>>, TRUE, {"param"})
        noTags == Outcome(ad, <<>>, <<>>, <<>>, TRUE, {"tags"})
        remove(r) == IF r.raised \/ ~is_address_removed_event(event) THEN {r}
                     ELSE {Then(r, a) : a \in RemoveOutcomes(r.addr, p, id)}
    IN  IF id = None THEN {invalid}
        ELSE IF ~Describable(id) THEN {notFound, empty}
        ELSE IF id = TaglessId THEN {notFound, noTags, Quiet(ad)}
        ELSE IF p = None THEN {notFound, Quiet(ad)}
        ELSE {notFound} \cup UNION {remove(r) : r \in AddOutcomes(ad, p)}

\* handler on an add or remove event
InstanceEventOutcomes(ad, event) ==
    LET id == event.instance_id
        p == pool_name(id)
        \* describe_pool_instance returned None after a ClientError
        notFound == Outcome(ad, <<>>, <<>>, <<>>, FALSE, {"describe"})
        \* describe_instances returned no reservation: IndexError escapes
        empty == Outcome(ad, <<>>, <<>>, <<>>, TRUE, {})
        \* InstanceIds=[None] fails the client's parameter validation, which
        \* is no ClientError: the exception escapes
        invalid == Outcome(ad, <<>>, <<>>, <<>>, TRUE, {"param"})
        \* the described instance has no "Tags" key: self["Tags"] raises
        \* KeyError in EC2Instance.tags
        noTags == Outcome(ad, <<>>, <<>>, <<>>, TRUE, {"tags"})
        add(r) == IF r.raised THEN {r}
                  ELSE {Then(r, a) : a \in AddOutcomes(r.addr, p)}
    IN  IF id = None THEN {invalid}
        ELSE IF ~Describable(id) THEN {notFound, empty}
        \* an instance without tags is described with an empty "Tags" list
        \* or without the key
        ELSE IF id = TaglessId THEN {notFound, noTags, Quiet(ad)}
        ELSE IF p = None THEN {notFound, Quiet(ad)}
        ELSE {notFound} \cup
             (IF is_address_removed_event(event)
              THEN UNION {add(r) : r \in RemoveOutcomes(ad, p, id)}
              ELSE add(Quiet(ad)))

\* ------------------------------------------------------------ the record
\* The record of the last invocation: which entry point ran (op), on which
\* instance and pool, what it did, and whether it repeats the invocation
\* before it (same entry point, instance and pool, nothing in between).
Last(op, inst, pool, r) ==
    [op |-> op, inst |-> inst, pool |-> pool, passes |-> r.passes,
     assoc |-> r.assoc, dis |-> r.dis, raised |-> r.raised,
     errors |-> r.errors,
     repeat |-> (last.op = op /\ last.inst = inst /\ last.pool = pool)]

\* no invocation is running and none has just finished
Idle ==
    [op |-> "idle", inst |-> None, pool |-> None, passes |-> <<>>,
     assoc |-> <<>>, dis |-> <<>>, raised |-> FALSE, errors |-> {},
     repeat |-> FALSE]

\* no concurrent passes are running
NoRun == [pool |-> None, exclusive |-> TRUE, pass |-> <<>>]

Init ==
    /\ state \in [Instances -> InstanceStates]
    /\ addr \in [Addresses -> ValidEIP]
    /\ last = Idle
    /\ run = NoRun

\* ------------------------------------------------ the instances' lifecycle
StartInstance(i) ==
    /\ state[i] = "stopped"
    /\ state' = [state EXCEPT ![i] = "running"]
    /\ last' = Idle
    /\ UNCHANGED <<addr, run>>

StopInstance(i) ==
    /\ state[i] = "running"
    /\ state' = [state EXCEPT ![i] = "stopped"]
    /\ last' = Idle
    /\ UNCHANGED <<addr, run>>

Lifecycle ==
    \/ \E i \in Instances : StartInstance(i)
    \/ \E i \in Instances : StopInstance(i)

\* ------------------------------------------ Manager methods called directly
ManagerAddAddresses(p) ==
    /\ \E r \in AddOutcomes(addr, p) :
          /\ addr' = r.addr
          /\ last' = Last("add_addresses", None, p, r)
    /\ UNCHANGED <<state, run>>

ManagerRemoveAddresses(p, id) ==
    /\ \E r \in RemoveOutcomes(addr, p, id) :
          /\ addr' = r.addr
          /\ last' = Last("remove_addresses", id, p, r)
    /\ UNCHANGED <<state, run>>

\* ------------------------------------------------------------ handler(event)
HandleInstanceEvent(event) ==
    /\ is_add_address_event(event) \/ is_address_removed_event(event)
    /\ \E r \in InstanceEventOutcomes(addr, event) :
          /\ addr' = r.addr
          /\ last' = Last(IF is_address_removed_event(event)
                          THEN "remove-trigger" ELSE "add-trigger",
                          event.instance_id,
                          pool_name(event.instance_id), r)
    /\ UNCHANGED <<state, run>>

HandleTimer(event) ==
    /\ ~(is_add_address_event(event) \/ is_address_removed_event(event))
    /\ is_timer(event)
    /\ \E r \in TimerOutcomes(addr) :
          /\ addr' = r.addr
          /\ last' = Last("timer-trigger", None, None, r)
    /\ UNCHANGED <<state, run>>

\* handler on a state-change event without a detail mapping: the first
\* condition of handler raises AttributeError
HandleNoDetail(event) ==
    /\ detail_is_none(event)
    /\ last' = Last("unclassified", None, None,
                     Outcome(addr, <<>>, <<>>, <<>>, TRUE, {"detail"}))
    /\ UNCHANGED <<state, addr, run>>

HandleIgnored(event) ==
    /\ ~detail_is_none(event)
    /\ ~(is_add_address_event(event) \/ is_address_removed_event(event))
    /\ ~is_timer(event)
    /\ last' = Last("ignored", None, None, Quiet(addr))
    /\ UNCHANGED <<state, addr, run>>

\* handler(event): one invocation on the given event
Handle(event) ==
    \/ HandleInstanceEvent(event)
    \/ HandleTimer(event)
    \/ HandleIgnored(event)
    \/ HandleNoDetail(event)

\* handler returned: nothing is kept between invocations
Return ==
    /\ last.op # "idle"
    /\ last' = Idle
    /\ UNCHANGED <<state, addr, run>>

\* Events are handled one invocation at a time, while the instances go
\* through their lifecycle.
Next ==
    \/ Lifecycle
    \/ last.op = "idle" /\ \E event \in Events : HandleInstanceEvent(event)
    \/ last.op = "idle" /\ \E event \in Events : HandleTimer(event)
    \/ last.op = "idle" /\ \E event \in Events : HandleIgnored(event)
    \/ last.op = "idle" /\ \E event \in Events : HandleNoDetail(event)
    \/ Return

Spec == Init /\ [][Next]_vars

\* The Manager methods called directly, as the tests call them: one call of
\* add_addresses or of remove_addresses, and a call of remove_addresses
\* repeated at once with the same arguments.
NextManager ==
    \/ Lifecycle
    \/ last.op = "idle" /\ \E p \in Pools : ManagerAddAddresses(p)
    \/ \E p \in Pools, id \in Instances \cup {UnknownId} :
          /\ \/ last.op = "idle"
             \/ last.op = "remove_addresses" /\ last.pool = p /\ last.inst = id
          /\ ManagerRemoveAddresses(p, id)
    \/ Return

SpecManager == Init /\ [][NextManager]_vars

\* Scheduled events only, over an inventory that no longer changes.
NextTimer == \E event \in Events : HandleTimer(event)

SpecTimer == Init /\ [][NextTimer]_vars

\* one add_addresses pass on pool p in which no API call fails
AddOutcomesOK(ad, p) ==
    {add_addresses(ad, p, instances, addresses, {}) :
        instances \in Perms(unattached_instances(ad, p)),
        addresses \in Perms(get_pool_addresses(p))}

\* the timer branch over the remaining pool names when no API call fails
RECURSIVE sweepOK(_, _)
sweepOK(names, r) ==
    IF names = <<>> THEN {r}
    ELSE UNION {sweepOK(Tail(names), Then(r, a)) :
                    a \in AddOutcomesOK(r.addr, Head(names))}

\* handler on a timer event, no API call failing
TimerSweepOK ==
    \E event \in Events :
        /\ ~(is_add_address_event(event) \/ is_address_removed_event(event))
        /\ is_timer(event)
        /\ \E r \in sweepOK(get_all_pool_names, Quiet(addr)) :
              /\ addr' = r.addr
              /\ last' = Last("timer-trigger", None, None, r)
        /\ UNCHANGED <<state, run>>

\* the failure-free sweeps are the sweeps of handler that record no error
SweepOKIsSweep ==
    sweepOK(get_all_pool_names, Quiet(addr)) =
        {r \in TimerOutcomes(addr) : r.errors = {}}

\* The schedule keeps firing and the API calls do not fail forever: a sweep
\* in which no call fails is eventually run, as long as it would change
\* something.
SpecLive == Init /\ [][NextTimer]_vars /\ WF_vars(TimerSweepOK)

\* --------------------------------------- two add passes at the same time
\* Two invocations run Manager.add_addresses on one pool at the same time.
\* Each refreshes on its own and then issues its associate calls one by
\* one, and the calls of the two passes interleave.  Whether the API
\* refuses to associate an allocation that is associated already
\* (exclusive) is the provider's choice, drawn when the passes start.
Passes == 1..2

\* a pass before its refresh(): no pair computed, no call issued
NewPass == [pc |-> "start", todo |-> <<>>, calls |-> <<>>]

StartPasses(p, exclusive) ==
    /\ run = NoRun
    /\ run' = [pool |-> p, exclusive |-> exclusive,
               pass |-> [k \in Passes |-> NewPass]]
    /\ UNCHANGED <<state, addr, last>>

\* add_addresses from refresh() to the list of pairs: the pass returns at
\* once without an unattached instance or without an available address
snapshot(ad, instances, addresses) ==
    LET allocation_ids == available_addresses(ad, addresses)
    IN  IF instances = <<>> \/ allocation_ids = <<>>
        THEN [pc |-> "done", todo |-> <<>>, calls |-> <<>>]
        ELSE [pc |-> "loop", todo |-> pairing(instances, allocation_ids),
              calls |-> <<>>]

\* refresh() of pass k: a listing raises, or the pass takes its snapshot
PassRefresh(k) ==
    /\ run # NoRun
    /\ run.pass[k].pc = "start"
    /\ \/ run' = [run EXCEPT !.pass[k].pc = "raised"]
       \/ \E instances \in Perms(unattached_instances(addr, run.pool)),
             addresses \in Perms(get_pool_addresses(run.pool)) :
             run' = [run EXCEPT !.pass[k] = snapshot(addr, instances, addresses)]
    /\ UNCHANGED <<state, addr, last>>

\* a slip: the ClientError of a failed call escapes the loop
associate_step_raise(pass, ok) ==
    [pc |-> IF ~ok THEN "raised"
            ELSE IF Len(pass.todo) = 1 THEN "done" ELSE "loop",
     todo |-> Tail(pass.todo),
     calls |-> Append(pass.calls,
                      <<Head(pass.todo)[1], Head(pass.todo)[2], ok>>)]

\* one turn of the loop of add_addresses: the call for the first pair left
\* returned (ok) or raised ClientError, which is logged; the loop goes on
\* with the next pair
associate_step(pass, ok) ==
    [pc |-> IF Len(pass.todo) = 1 THEN "done" ELSE "loop",
     todo |-> Tail(pass.todo),
     calls |-> Append(pass.calls,
                      <<Head(pass.todo)[1], Head(pass.todo)[2], ok>>)]

\* pass k issues its next associate call.  An exclusive provider refuses an
\* allocation that is associated by now; any call may fail for another
\* reason.
PassAssociate(k) ==
    /\ run # NoRun
    /\ run.pass[k].pc = "loop"
    /\ LET pair == Head(run.pass[k].todo)
       IN  \E ok \in BOOLEAN :
              /\ ok => ~(run.exclusive /\ is_associated(addr[pair[2]]))
              /\ addr' = associate_address(addr, pair[1], pair[2],
                                           IF ok THEN {} ELSE {pair[2]})
              /\ run' = [run EXCEPT !.pass[k] = associate_step(run.pass[k], ok)]
    /\ UNCHANGED <<state, last>>

\* both invocations are over
EndPasses ==
    /\ run # NoRun
    /\ \A k \in Passes : run.pass[k].pc \in {"done", "raised"}
    /\ run' = NoRun
    /\ UNCHANGED <<state, addr, last>>

NextConcurrent ==
    \/ \E p \in Pools, exclusive \in BOOLEAN : StartPasses(p, exclusive)
    \/ \E k \in Passes : PassRefresh(k)
    \/ \E k \in Passes : PassAssociate(k)
    \/ EndPasses

SpecConcurrent == Init /\ [][NextConcurrent]_vars

\* ------------------------ src: asg_elastic_ip_manager/manager.py (variant)
\* The auto scaling group variant.  A group is tagged with its pool; its
\* healthy in-service instances are the running instances of the pool.
asg_instances(p) == get_pool_instances(p)

\* Manager.available_addresses of the variant: no "InstanceId" key
asg_available_addresses(ad, addresses) ==
    SelectSeq(addresses, LAMBDA a : ad[a].InstanceId = None)

\* Manager.attached_instances of the variant: every InstanceId of the pool's
\* addresses
asg_attached_instances(ad, p) ==
    {ad[a].InstanceId : a \in {b \in get_pool_addresses(p) : ad[b].InstanceId # None}}

asg_unattached_instances(ad, p) ==
    asg_instances(p) \ asg_attached_instances(ad, p)

\* Manager.add_addresses of the variant.  Without an available address it
\* logs an error and returns.  The pairs are built over the allocation ids:
\* instances[i] raises IndexError when there are more of them than
\* unattached instances, before any call.
asg_add_addresses(ad, p, instances, addresses, failing) ==
    LET allocation_ids == asg_available_addresses(ad, addresses)
        pairs == [k \in 1..Len(allocation_ids) |->
                     <<instances[k], allocation_ids[k]>>]
    IN  IF instances = <<>>
        THEN Outcome(ad, <<<<"add", p>>>>, <<>>, <<>>, FALSE, {})
        ELSE IF allocation_ids = <<>>
        THEN Outcome(ad, <<<<"add", p>>>>, <<>>, <<>>, FALSE, {})
        ELSE IF Len(allocation_ids) > Len(instances)
        THEN Outcome(ad, <<<<"add", p>>>>, <<>>, <<>>, TRUE, {"index"})
        ELSE Outcome(associate_loop(ad, pairs, failing), <<<<"add", p>>>>,
                     pairs, <<>>, FALSE,
                     IF \E k \in DOMAIN pairs : pairs[k][2] \in failing
                     THEN {"associate"} ELSE {})

\* handler of the variant on "EC2 Instance Launch Successful" for the group
\* of pool p: the group is not found, the listing in Manager.__init__
\* raises, or add_addresses runs
AsgLaunchOutcomes(ad, p) ==
    {Outcome(ad, <<>>, <<>>, <<>>, FALSE, {"describe"}),
     Outcome(ad, <<>>, <<>>, <<>>, TRUE, {"list"})} \cup
    UNION {
        {asg_add_addresses(ad, p, instances, addresses, failing) :
            failing \in SUBSET {a \in get_pool_addresses(p) : ad[a].InstanceId = None}} :
        instances \in Perms(asg_unattached_instances(ad, p)),
        addresses \in Perms(get_pool_addresses(p))}

HandleAsgLaunch(p) ==
    /\ \E r \in AsgLaunchOutcomes(addr, p) :
          /\ addr' = r.addr
          /\ last' = Last("asg-launch", None, p, r)
    /\ UNCHANGED <<state, run>>

NextAsg ==
    \/ Lifecycle
    \/ last.op = "idle" /\ \E p \in Pools : HandleAsgLaunch(p)
    \/ Return

SpecAsg == Init /\ [][NextAsg]_vars

\* ======================================================= the properties
\* the addresses of pool p bound to instance i in inventory ad
Held(ad, p, i) == {a \in get_pool_addresses(p) : ad[a].InstanceId = i}

\* the addresses of pool p with no association in inventory ad
Available(ad, p) == {a \in get_pool_addresses(p) : ~ad[a].AssociationId}

\* the eligible instances of pool p: tagged with p and running
Eligible(p) == {i \in Instances : InstancePool(i) = p /\ state[i] = "running"}

\* the eligible instances of pool p that hold no address of p in ad
Unattached(ad, p) == {i \in Eligible(p) : Held(ad, p, i) = {}}

\* no two elements of the sequence of calls agree in component c
DistinctIn(calls, c) ==
    \A j, k \in DOMAIN calls : j # k => calls[j][c] # calls[k][c]

\* the instances, and the allocations, of a sequence of associate calls
CallInstances(calls) == {calls[k][1] : k \in DOMAIN calls}
CallAllocations(calls) == {calls[k][2] : k \in DOMAIN calls}

IsTrigger(op) == op \in {"add-trigger", "remove-trigger", "timer-trigger"}

NoOverAssignment ==
    \A p \in Pools, i \in Instances : Cardinality(Held(addr, p, i)) <= 1

\* C1: no over-assignment.  From an inventory in which no instance holds
\* more than one address of a pool, an add-trigger, remove-trigger or timer
\* invocation (run one at a time) leaves no instance holding more than one
\* address of a pool; and within one invocation no two associate calls
\* name the same address or the same instance, so no address is given to
\* two instances.
C1_NoOverAssignment ==
    [][/\ NoOverAssignment => NoOverAssignment'
       /\ IsTrigger(last'.op) =>
             DistinctIn(last'.assoc, 1) /\ DistinctIn(last'.assoc, 2)]_vars

\* an invocation associated an address in a pool where another instance
\* already holds one, and nobody holds two
C1_Witness ==
    /\ IsTrigger(last.op)
    /\ last.assoc # <<>>
    /\ last.errors = {}
    /\ NoOverAssignment
    /\ \E p \in Pools, i \in CallInstances(last.assoc), j \in Instances :
          /\ j \notin CallInstances(last.assoc)
          /\ Held(addr, p, i) # {}
          /\ Held(addr, p, j) # {}

\* C2: one add_addresses pass that obtained its snapshot issues exactly
\* min(#unattached eligible instances, #available addresses) associate
\* calls, each for a distinct unattached instance and a distinct available
\* address, and returns normally; so with no address available it issues
\* none, and the instances it has no address for remain unattached.
C2_PairsMinimum ==
    [][last'.op = "add_addresses" /\ "list" \notin last'.errors =>
        LET p == last'.pool
            unattached == Unattached(addr, p)
            free == Available(addr, p)
            calls == last'.assoc
        IN  /\ Len(calls) = Min(Cardinality(unattached), Cardinality(free))
            /\ CallInstances(calls) \subseteq unattached
            /\ CallAllocations(calls) \subseteq free
            /\ DistinctIn(calls, 1) /\ DistinctIn(calls, 2)
            /\ ~last'.raised
            /\ \A i \in unattached \ CallInstances(calls) :
                  Held(addr', p, i) = {}]_vars

\* a shortage: one call issued, the pool is out of addresses and an
\* eligible instance is still unattached
C2_Witness ==
    /\ last.op = "add_addresses"
    /\ Len(last.assoc) = 1
    /\ last.errors = {}
    /\ Available(addr, last.pool) = {}
    /\ Unattached(addr, last.pool) # {}

\* inventory ad after every address that instance id holds in pool p is freed
Released(ad, p, id) ==
    [a \in Addresses |-> IF a \in Held(ad, p, id) THEN FreeEIP ELSE ad[a]]

\* C3: on a remove-trigger for an instance with a pool tag the handler runs
\* remove_addresses for the instance and then add_addresses for the same
\* pool on a fresh snapshot: with no API failure, if after the release the
\* pool has at least as many unattached eligible instances as available
\* addresses, no address of the pool is available when the invocation
\* ends.  On an add-trigger only add_addresses runs.
C3_RemoveThenBackfill ==
    [][/\ /\ last'.op = "remove-trigger"
          /\ last'.pool # None
          /\ last'.errors = {}
          => LET p == last'.pool
                 released == Released(addr, p, last'.inst)
             IN  /\ last'.passes = <<<<"remove", p>>, <<"add", p>>>>
                 /\ ~last'.raised
                 /\ Cardinality(Unattached(released, p))
                       >= Cardinality(Available(released, p))
                    => Available(addr', p) = {}
       /\ /\ last'.op = "add-trigger"
          /\ last'.pool # None
          /\ last'.errors = {}
          => /\ last'.passes = <<<<"add", last'.pool>>>>
             /\ last'.dis = <<>>
             /\ ~last'.raised]_vars

\* a remove-trigger released an address and the backfill of the same
\* invocation gave that address to an instance, leaving none available
C3_Witness ==
    /\ last.op = "remove-trigger"
    /\ last.errors = {}
    /\ \E k \in DOMAIN last.dis : last.dis[k] \in CallAllocations(last.assoc)
    /\ Available(addr, last.pool) = {}

\* every eligible instance of pool p holds an address of p
Saturated(ad, p) == Unattached(ad, p) = {}

\* C4: add when saturated is idempotent.  A sweep issues no associate call
\* for a pool all of whose eligible instances hold an address, and leaves
\* the bindings of that pool as they are; and a second timer sweep over an
\* unchanged inventory, after a sweep in which no API call failed, issues
\* no associate call and leaves the available addresses as they are.
C4_SaturatedAddIsNoOp ==
    [][last'.op = "timer-trigger" =>
        /\ \A p \in Pools :
              Saturated(addr, p) =>
                 /\ \A k \in DOMAIN last'.assoc :
                       AddressPool(last'.assoc[k][2]) # p
                 /\ \A a \in get_pool_addresses(p) : addr'[a] = addr[a]
        /\ last.op = "timer-trigger" /\ last.errors = {} =>
              /\ last'.assoc = <<>>
              /\ \A p \in Pools : Available(addr', p) = Available(addr, p)]_vars

\* a second sweep in a row found an attached instance in every pool it
\* could serve, with an address to spare, and issued no call
C4_Witness ==
    /\ last.op = "timer-trigger"
    /\ last.repeat
    /\ last.errors = {}
    /\ last.assoc = <<>>
    /\ \A p \in Pools : Saturated(addr, p)
    /\ \E p \in Pools : Eligible(p) # {} /\ Available(addr, p) # {}

\* this step is a call of remove_addresses that repeats the call before it
RemoveRepeated ==
    /\ last.op = "remove_addresses"
    /\ last'.op = "remove_addresses"
    /\ last'.pool = last.pool
    /\ last'.inst = last.inst

C6_RemoveOnlyOwn ==
    [][last'.op = "remove_addresses" /\ "list" \notin last'.errors =>
        LET bound == Held(addr, last'.pool, last'.inst)
            calls == last'.dis
        IN  /\ Len(calls) = Cardinality(bound)
            /\ {calls[k] : k \in DOMAIN calls} = bound
            /\ \A a \in Addresses \ bound : addr'[a] = addr[a]
            /\ bound = {} => calls = <<>>
            /\ ~last'.raised]_vars

\* an instance's address was released while another instance of the same
\* pool kept its own
C6_Witness ==
    /\ last.op = "remove_addresses"
    /\ last.errors = {}
    /\ last.dis # <<>>
    /\ \A k \in DOMAIN last.dis : ~addr[last.dis[k]].AssociationId
    /\ \E i \in Instances \ {last.inst} : Held(addr, last.pool, i) # {}

\* C7: the end-to-end scenario.  In a pool of two addresses, one available
\* and one bound to X, a remove-trigger for X, which no longer runs, frees
\* X's address and issues no associate call when no eligible instance is
\* unattached; then, both addresses being available, an add-trigger for a
\* running instance Y, the only unattached one, issues exactly one
\* associate call, after which Y holds exactly one of the two addresses and
\* the other is still available.  (No API call fails.)
C7_EndToEnd ==
    [][/\ /\ last'.op = "remove-trigger"
          /\ last'.pool # None
          /\ last'.errors = {}
          /\ state[last'.inst] # "running"
          /\ Cardinality(get_pool_addresses(last'.pool)) = 2
          /\ Cardinality(Available(addr, last'.pool)) = 1
          /\ Cardinality(Held(addr, last'.pool, last'.inst)) = 1
          /\ Unattached(addr, last'.pool) = {}
          => /\ Available(addr', last'.pool) = get_pool_addresses(last'.pool)
             /\ last'.assoc = <<>>
       /\ /\ last'.op = "add-trigger"
          /\ last'.pool # None
          /\ last'.errors = {}
          /\ Cardinality(get_pool_addresses(last'.pool)) = 2
          /\ Available(addr, last'.pool) = get_pool_addresses(last'.pool)
          /\ Unattached(addr, last'.pool) = {last'.inst}
          => /\ Len(last'.assoc) = 1
             /\ Cardinality(Held(addr', last'.pool, last'.inst)) = 1
             /\ Cardinality(Available(addr', last'.pool)) = 1]_vars

\* the end of the scenario: after the add-trigger for Y, Y holds one of the
\* two addresses of its pool, the other is available, and the X of the same
\* pool no longer runs and holds nothing
C7_Witness ==
    /\ last.op = "add-trigger"
    /\ last.errors = {}
    /\ Len(last.assoc) = 1
    /\ last.assoc[1][1] = last.inst
    /\ Cardinality(get_pool_addresses(last.pool)) = 2
    /\ Cardinality(Held(addr, last.pool, last.inst)) = 1
    /\ Cardinality(Available(addr, last.pool)) = 1
    /\ \E x \in Instances :
          /\ InstancePool(x) = last.pool
          /\ state[x] # "running"
          /\ Held(addr, last.pool, x) = {}

\* C8 as claimed: a timer sweep without API failures corrects a dropped
\* remove event.  An address bound to an instance that no longer runs is,
\* after the sweep, released or bound to an eligible instance, or at least
\* no eligible instance of its pool is left unattached for want of it.
C8_Claimed ==
    [][last'.op = "timer-trigger" /\ last'.errors = {} =>
        \A a \in Addresses, x \in Instances :
           /\ addr[a].InstanceId = x
           /\ InstancePool(x) = AddressPool(a)
           /\ state[x] # "running"
           =>
              \/ ~addr'[a].AssociationId
              \/ addr'[a].InstanceId \in Eligible(AddressPool(a))
              \/ Unattached(addr', AddressPool(a)) = {}]_vars

\* every pool has no unattached eligible instance or no available address
Converged ==
    \A p \in Pools : Unattached(addr, p) = {} \/ Available(addr, p) = {}

\* C9: eventual consistency.  Over an inventory that no longer changes,
\* with timer-triggers that keep firing and associate calls that do not
\* fail forever, the pools reach and stay in a state where each has no
\* unattached eligible instance or no available address; and no invocation
\* calls associate twice for the same address (no in-line retry).
C9_EventuallyConsistent ==
    /\ <>[]Converged
    /\ [](DistinctIn(last.assoc, 2))

\* a sweep that repeats a sweep still had addresses to associate, one per
\* address, and left the pools converged
C9_Witness ==
    /\ last.op = "timer-trigger"
    /\ last.repeat
    /\ last.assoc # <<>>
    /\ DistinctIn(last.assoc, 2)
    /\ Converged

\* the pool names of the enumeration
PoolNames == {get_all_pool_names[k] : k \in DOMAIN get_all_pool_names}

\* C10: on a timer-trigger the handler runs add_addresses once for every
\* pool name of the enumeration (for each of them when the invocation
\* returns normally, never twice for one), and after a sweep in which no API
\* call failed every pool has no unattached eligible instance or no
\* available address.
C10_SweepEveryPool ==
    [][last'.op = "timer-trigger" =>
        /\ \A k \in DOMAIN last'.passes :
              last'.passes[k][1] = "add" /\ last'.passes[k][2] \in PoolNames
        /\ DistinctIn(last'.passes, 2)
        /\ ~last'.raised =>
              {last'.passes[k][2] : k \in DOMAIN last'.passes} = PoolNames
        /\ last'.errors = {} => ~last'.raised /\ Converged']_vars

\* a sweep without failure passed over every pool and associated addresses
\* in two of them
C10_Witness ==
    /\ last.op = "timer-trigger"
    /\ last.errors = {}
    /\ Len(last.passes) = Cardinality(Pools)
    /\ \E j, k \in DOMAIN last.assoc :
          AddressPool(last.assoc[j][2]) # AddressPool(last.assoc[k][2])
    /\ Converged

\* the categories of the event classification
Categories == {"add-trigger", "remove-trigger", "timer-trigger", "ignored"}

StateChange(event) ==
    /\ event.source = "aws.ec2"
    /\ event.detail_type = "EC2 Instance State-change Notification"

\* C11 as claimed: the classification is a total function onto mutually
\* exclusive categories.  Every event the handler receives falls into
\* exactly one of add-trigger, remove-trigger, timer-trigger and ignored; a
\* state-change event of aws.ec2 is an add-trigger exactly when its state is
\* running and a remove-trigger exactly when its state is stopping,
\* shutting-down or terminated; an event of an unrecognized source is
\* ignored.
C11_Claimed ==
    [][\A event \in Events : Handle(event) =>
        /\ last'.op \in Categories
        /\ StateChange(event) =>
              /\ last'.op = "add-trigger" <=> event.state = "running"
              /\ last'.op = "remove-trigger" <=>
                    event.state \in {"stopping", "shutting-down", "terminated"}
        /\ event.source \notin {"aws.ec2", "aws.events"} =>
              last'.op = "ignored"]_vars

\* an event with a missing field: no detail mapping, or a state-change
\* detail without the state or without the instance-id
MissingField(event) ==
    \/ ~event.detail
    \/ StateChange(event) /\ (event.state = "none" \/ event.instance_id = None)

\* C12 as claimed: an event with unknown or missing fields is classified
\* as ignored; the handler returns normally and issues no associate or
\* disassociate call.
C12_Claimed ==
    [][\A event \in Events : MissingField(event) /\ Handle(event) =>
        /\ last'.op = "ignored"
        /\ ~last'.raised
        /\ last'.assoc = <<>> /\ last'.dis = <<>>]_vars

\* an event of an unknown source, or a state-change event whose state is
\* neither an add state nor a remove state
Ignorable(event) ==
    \/ event.source \notin {"aws.ec2", "aws.events"}
    \/ /\ StateChange(event)
       /\ event.detail
       /\ event.state \notin {"running", "stopping", "shutting-down", "terminated"}

IgnorableEvents == {event \in Events : Ignorable(event)}

\* C13: an ignored or unrecognized event has no side effect.  The handler
\* runs no pass and issues no associate or disassociate call, every address
\* binding is the same after the invocation as before it, and the
\* invocation returns normally.
C13_IgnoredNoEffect ==
    [][\A event \in IgnorableEvents : Handle(event) =>
        /\ last'.op = "ignored"
        /\ last'.passes = <<>> /\ last'.assoc = <<>> /\ last'.dis = <<>>
        /\ ~last'.raised
        /\ addr' = addr /\ state' = state]_vars

\* an event was ignored while a pool had an unattached eligible instance and
\* an available address, and an instance held an address
C13_Witness ==
    /\ last.op = "ignored"
    /\ \E p \in Pools : Unattached(addr, p) # {} /\ Available(addr, p) # {}
    /\ \E a \in Addresses : addr[a].InstanceId \in Instances

\* C14 as claimed: an add- or remove-trigger that names an instance which
\* cannot be found (the describe call fails, or succeeds with an empty
\* result) is a no-op: the handler returns normally and issues no associate
\* or disassociate call.
C14_Claimed ==
    [][/\ last'.op \in {"add-trigger", "remove-trigger"}
       /\ last'.inst = UnknownId
       =>
       /\ ~last'.raised
       /\ last'.assoc = <<>> /\ last'.dis = <<>>
       /\ addr' = addr]_vars

\* the associate calls for allocation a that succeeded, over both passes
OkCalls(a) ==
    {c \in Passes \X (1..MaxInstances) :
        /\ c[2] \in DOMAIN run.pass[c[1]].calls
        /\ run.pass[c[1]].calls[c[2]][2] = a
        /\ run.pass[c[1]].calls[c[2]][3]}

\* C15: two add passes on one pool at the same time, against a provider
\* that refuses to associate an associated address.  At most one associate
\* call succeeds for an address, the address is bound to the instance of
\* the call that succeeded, and a pass whose call failed does not call
\* again for that address and does not raise: it goes on to its end.
C15_ConcurrentAdd ==
    run # NoRun /\ run.exclusive =>
        /\ \A a \in Addresses : Cardinality(OkCalls(a)) <= 1
        /\ \A k \in Passes :
              LET pass == run.pass[k]
              IN  /\ \A j \in DOMAIN pass.calls :
                        pass.calls[j][3] =>
                            /\ addr[pass.calls[j][2]].AssociationId
                            /\ addr[pass.calls[j][2]].InstanceId = pass.calls[j][1]
                  /\ DistinctIn(pass.calls, 2)
                  /\ pass.pc = "raised" => pass.calls = <<>>
                  /\ pass.pc = "done" => pass.todo = <<>>

\* both passes took the address from their snapshots: the call of the first
\* succeeded, the call of the second for the same address failed, and both
\* passes ended normally
C15_Witness ==
    /\ run # NoRun /\ run.exclusive
    /\ \A k \in Passes : run.pass[k].pc = "done"
    /\ \E a \in Addresses, i, j \in Instances :
          /\ i # j
          /\ run.pass[1].calls = <<<<i, a, TRUE>>>>
          /\ run.pass[2].calls = <<<<j, a, FALSE>>>>
          /\ addr[a] = BoundEIP(i)

\* the addresses of pool p bound to an instance, and those associated
Bound(ad, p) == {a \in get_pool_addresses(p) : ad[a].InstanceId # None}
Associated(ad, p) == {a \in get_pool_addresses(p) : ad[a].AssociationId}

\* bound plus available addresses make up the pool
Conserved(ad, p) ==
    Cardinality(Bound(ad, p)) + Cardinality(Available(ad, p))
        = Cardinality(get_pool_addresses(p))

C17_Claimed ==
    [][/\ last'.op = "asg-launch"
       /\ last'.errors = {}
       /\ \E i \in Eligible(last'.pool) : Held(addr, last'.pool, i) = {}
       /\ \A a \in get_pool_addresses(last'.pool) : addr[a].InstanceId # None
       =>
       /\ last'.assoc = <<>>
       /\ \E k \in DOMAIN last'.passes : last'.passes[k] = <<"cancel", last'.pool>>]_vars

\* C18: partial failure.  In an add pass in which an associate call failed,
\* a call was still issued for every pair (as many as the smaller of the
\* unattached instances and the available addresses), each called address
\* is bound to its instance or left as it was, and the pass returns
\* normally.  In a remove pass in which a disassociate call failed, a call
\* was still issued for every address bound to the instance, each is freed
\* or left as it was, and the pass returns normally.
C18_PartialFailure ==
    [][/\ last'.op = "add_addresses" /\ "associate" \in last'.errors =>
            /\ ~last'.raised
            /\ Len(last'.assoc) =
                  Min(Cardinality(Unattached(addr, last'.pool)),
                      Cardinality(Available(addr, last'.pool)))
            /\ DistinctIn(last'.assoc, 2)
            /\ \A k \in DOMAIN last'.assoc :
                  \/ addr'[last'.assoc[k][2]] = addr[last'.assoc[k][2]]
                  \/ /\ addr'[last'.assoc[k][2]].AssociationId
                     /\ addr'[last'.assoc[k][2]].InstanceId = last'.assoc[k][1]
            /\ \E k \in DOMAIN last'.assoc :
                  addr'[last'.assoc[k][2]] = addr[last'.assoc[k][2]]
       /\ last'.op = "remove_addresses" /\ "disassociate" \in last'.errors =>
            /\ ~last'.raised
            /\ {last'.dis[k] : k \in DOMAIN last'.dis}
                  = Held(addr, last'.pool, last'.inst)
            /\ Len(last'.dis) = Cardinality(Held(addr, last'.pool, last'.inst))
            /\ \A k \in DOMAIN last'.dis :
                  \/ addr'[last'.dis[k]] = addr[last'.dis[k]]
                  \/ ~addr'[last'.dis[k]].AssociationId
            /\ \E k \in DOMAIN last'.dis :
                  addr'[last'.dis[k]] = addr[last'.dis[k]]]_vars

\* an add pass whose first call failed and whose second call succeeded
C18_Witness ==
    /\ last.op = "add_addresses"
    /\ "associate" \in last.errors
    /\ ~last.raised
    /\ Len(last.assoc) = 2
    /\ ~addr[last.assoc[1][2]].AssociationId
    /\ addr[last.assoc[2][2]].AssociationId
    /\ addr[last.assoc[2][2]].InstanceId = last.assoc[2][1]

\* C19: a failed listing aborts the pass.  When the listing of a pass fails,
\* that pass is the last of the invocation and the invocation fails; the
\* pass issued no call: a failed remove pass leaves the invocation without
\* any call and every binding as it was, a failed add pass leaves it
\* without an associate call for the pool, and the addresses of the pool
\* are as they were unless an earlier remove pass of the invocation freed
\* them.
C19_ListingFailureAborts ==
    [][IsTrigger(last'.op) /\ "list" \in last'.errors =>
        /\ last'.raised
        /\ last'.passes # <<>>
        /\ LET failed == last'.passes[Len(last'.passes)]
               freed == {last'.dis[k] : k \in DOMAIN last'.dis}
           IN  /\ failed[1] = "remove" =>
                     /\ last'.assoc = <<>> /\ last'.dis = <<>>
                     /\ addr' = addr
               /\ failed[1] = "add" =>
                     /\ \A k \in DOMAIN last'.assoc :
                           AddressPool(last'.assoc[k][2]) # failed[2]
                     /\ \A a \in get_pool_addresses(failed[2]) :
                           addr'[a] = addr[a] \/ (a \in freed /\ addr'[a] = FreeEIP)]_vars

\* a remove-trigger released an address, and the listing of its add pass
\* failed while an eligible instance waited for an address: no associate
\* call, a failed invocation
C19_Witness ==
    /\ last.op = "remove-trigger"
    /\ "list" \in last.errors
    /\ last.raised
    /\ Len(last.passes) = 2
    /\ last.dis # <<>>
    /\ last.assoc = <<>>
    /\ Unattached(addr, last.pool) # {}
    /\ Available(addr, last.pool) # {}

\* C20 as claimed: an add- or remove-trigger that names an existing
\* instance without a pool tag, an instance without any tag included, makes
\* the handler return normally: it does not raise and issues no associate
\* or disassociate call.
C20_Claimed ==
    [][/\ last'.op \in {"add-trigger", "remove-trigger"}
       /\ last'.inst \in {UntaggedId, TaglessId}
       =>
       /\ ~last'.raised
       /\ last'.passes = <<>>
       /\ last'.assoc = <<>> /\ last'.dis = <<>>
       /\ addr' = addr]_vars

\* C21 as claimed: two add passes on one pool, each with its own snapshot,
\* interleave.  Once both have finished, no instance that a pass served
\* holds more than one address of the pool.
C21_Claimed ==
    /\ run # NoRun
    /\ \A k \in Passes : run.pass[k].pc \in {"done", "raised"}
    =>
    \A k \in Passes : \A j \in DOMAIN run.pass[k].calls :
        run.pass[k].calls[j][3] =>
            Cardinality(Held(addr, run.pool, run.pass[k].calls[j][1])) <= 1

\* the inventories an add pass of a handler invocation can have listed:
\* the inventory at the start with any of the invocation's own
\* disassociate calls carried out
Snapshots(ad, dis) ==
    {[a \in Addresses |->
        IF a \in S THEN [AssociationId |-> FALSE, InstanceId |-> None]
        ELSE ad[a]] : S \in SUBSET {dis[k] : k \in DOMAIN dis}}

\* every call of calls is for an instance that is running and unattached
\* and for an address that is available in the inventory s
TargetsSnapshot(s, calls) ==
    \A k \in DOMAIN calls :
        LET p == AddressPool(calls[k][2])
        IN  /\ calls[k][1] \in Unattached(s, p)
            /\ calls[k][2] \in Available(s, p)

\* C22: every associate call that an add pass of a handler invocation
\* issues is for an instance that was running and unattached in the pass's
\* snapshot and for an address that the snapshot showed without an
\* association; an address that the snapshot showed as associated gets no
\* associate call and stays with what it was associated to.
C22_CallsTargetSnapshot ==
    [][IsTrigger(last'.op) =>
        /\ \E s \in Snapshots(addr, last'.dis) :
              TargetsSnapshot(s, last'.assoc)
        /\ \A a \in Addresses :
              addr[a].AssociationId
              /\ a \notin {last'.dis[k] : k \in DOMAIN last'.dis}
              => /\ addr'[a] = addr[a]
                 /\ a \notin CallAllocations(last'.assoc)]_vars

\* an add pass served an instance with a free address while another
\* address of the same pool stayed with the instance that held it
C22_Witness ==
    /\ last.op = "add-trigger"
    /\ last.errors = {}
    /\ \E k \in DOMAIN last.assoc :
          LET i == last.assoc[k][1]
              a == last.assoc[k][2]
          IN  /\ addr[a].InstanceId = i
              /\ \E b \in get_pool_addresses(AddressPool(a)) \ CallAllocations(last.assoc) :
                    /\ addr[b].AssociationId
                    /\ addr[b].InstanceId \notin {None, i}

\* C23 as claimed: a timer sweep in which nothing worse happens than a
\* refused associate call or a failed emission of a pool's metric returns
\* normally and runs add_addresses for every pool.
C23_Claimed ==
    [][/\ last'.op = "timer-trigger"
       /\ last'.errors # {}
       /\ last'.errors \subseteq {"associate", "metric"}
       => /\ ~last'.raised
          /\ {last'.passes[k][2] : k \in DOMAIN last'.passes} = PoolNames]_vars

\* the addresses of pool p that the auto-scaling-group variant takes as
\* available: bound to no instance
AsgAvailable(ad, p) == {a \in get_pool_addresses(p) : ad[a].InstanceId = None}

\* C24 as claimed: in the auto-scaling-group variant an add_addresses pass
\* that obtained its listings issues min(#unattached instances, #available
\* addresses) associate calls, one per distinct unattached instance and
\* distinct available address, and returns normally, whatever the two
\* counts are; with more available addresses than unattached instances
\* every unattached instance gets its call and the surplus stays available.
C24_Claimed ==
    [][/\ last'.op = "asg-launch"
       /\ last'.errors \cap {"list", "describe"} = {}
       => LET p == last'.pool
              unattached == Unattached(addr, p)
              free == AsgAvailable(addr, p)
              calls == last'.assoc
          IN  /\ ~last'.raised
              /\ Len(calls) = Min(Cardinality(unattached), Cardinality(free))
              /\ CallInstances(calls) \subseteq unattached
              /\ CallAllocations(calls) \subseteq free
              /\ DistinctIn(calls, 1) /\ DistinctIn(calls, 2)
              /\ \A a \in free \ CallAllocations(calls) : addr'[a] = addr[a]]_vars

====
